---- MODULE Spec2Model ----
(***************************************************************************)
(* Bitcoin price pipeline: ingestion loop (bitcoin_data_ingestion.py),     *)
(* raw-to-derived transform (bitcoin_utils.py), forecasting orchestrator   *)
(* (bitcoin_example.py) and the push script (push_to_powerbi.py).          *)
(*                                                                         *)
(* Time is counted in seconds from an arbitrary origin.  Prices and        *)
(* forecasts are integers; every derived quantity is an exact rational     *)
(* [n, d], so the arithmetic is that of the formulas, without rounding.    *)
(* A file is [exists, lines]; a missing value (pandas NaN) is NaN.         *)
(***************************************************************************)
EXTENDS Integers, Sequences, FiniteSets

VARIABLES
    csv_data,            \* bitcoin_price_data.csv
    ingest_pc,           \* ingestion loop: "fetch" | "sleep" | "stopped"
    cycles,              \* ingestion cycles started so far
    fetched,             \* history: samples of the successful fetches, in order
    last_cycle,          \* history: outcome of the last cycle and the file before it
    interrupted,         \* history: a KeyboardInterrupt was delivered
    transformed_csv,     \* bitcoin_price_transformed.csv
    full_csv,            \* bitcoin_price_transformed_full.csv
    pc,                  \* orchestrator / direct call position
    df,                  \* the DataFrame main() loaded (or a direct call's argument)
    forecast_prophet_csv,\* forecast_prophet.csv
    forecast_sarima_csv, \* forecast_sarima.csv
    seasonal_png,        \* seasonal_decompose.png
    resampled,           \* df_indexed of run_seasonal_decompose
    step_status,         \* history: per forecasting step "notrun" | "ok" | "raised"
    last_call,           \* history: the last forecasting call, its argument and the files before
    DRY_RUN,             \* push_to_powerbi.DRY_RUN
    posts,               \* payloads handed to requests.post, in order
    printed,             \* payloads printed by the dry run
    push_pc              \* push script: "start" | "done" | "failed"

vars == <<csv_data, ingest_pc, cycles, fetched, last_cycle, interrupted,
          transformed_csv, full_csv, pc, df, forecast_prophet_csv,
          forecast_sarima_csv, seasonal_png, resampled, step_status, last_call,
          DRY_RUN, posts, printed, push_pc>>

ingestVars == <<csv_data, ingest_pc, cycles, fetched, last_cycle, interrupted>>
mainVars == <<full_csv, pc, df, forecast_sarima_csv, seasonal_png, resampled,
              step_status, last_call>>
pushVars == <<DRY_RUN, posts, printed, push_pc>>
notIngestVars == <<transformed_csv, mainVars, forecast_prophet_csv, pushVars>>

(***************************************************************************)
(* Bounds of the model.                                                    *)
(***************************************************************************)
MaxCycles == 4          \* ingestion cycles explored
MaxQuiet == 15          \* longest run of identical prices opening a raw file
MaxTail == 3            \* free rows following the quiet run
MaxShort == 3           \* rows of a raw file in arbitrary order
MaxRows == 3            \* rows of the series handed to the forecasters
MaxHorizon == 3         \* largest periods / steps of a direct forecaster call
MaxPushRows == 2        \* rows of the forecast table the push script reads
MaxPeriod == 2          \* largest period of a direct decomposition call

Minute == 60            \* pandas frequency 'T', in seconds
Prices == {100, 101, 103}

(***************************************************************************)
(* Values.                                                                 *)
(***************************************************************************)
NaN == [nan |-> TRUE]
Rat(n, d) == [n |-> n, d |-> d]
IsNaN(v) == v = NaN
RatEq(a, b) == a.n * b.d = b.n * a.d
RatSub(a, b) == Rat(a.n * b.d - b.n * a.d, a.d * b.d)
RatMul(a, b) == Rat(a.n * b.n, a.d * b.d)
RatDiv(a, b) == Rat(a.n * b.d, a.d * b.n)

NoFile == [exists |-> FALSE, lines |-> <<>>]
File(ls) == [exists |-> TRUE, lines |-> ls]

RECURSIVE SumSeq(_)
SumSeq(s) == IF s = <<>> THEN 0 ELSE Head(s) + SumSeq(Tail(s))

RECURSIVE SeqsUpTo(_, _)
SeqsUpTo(S, n) ==
    IF n = 0 THEN {<<>>}
    ELSE LET shorter == SeqsUpTo(S, n - 1)
         IN shorter \cup {Append(s, x) : s \in {t \in shorter : Len(t) = n - 1}, x \in S}

(***************************************************************************)
(* bitcoin_utils.py: fetch_bitcoin_price, append_data_to_csv,              *)
(* fetch_and_store; bitcoin_data_ingestion.py: main.                       *)
(***************************************************************************)
RawColumns == <<"timestamp", "price_usd", "market_cap_usd">>
HeaderLine(cols) == [header |-> cols]
RowLine(data) == [row |-> data]

\* What the API can answer: last_updated_at may repeat between two polls.
Samples ==
    {[timestamp |-> t, price_usd |-> p, market_cap_usd |-> p * 2] :
        t \in {0, Minute}, p \in {100, 101}}

\* faulty variant: header=True on every append
append_data_to_csv_always_header(file, data) ==
    File(file.lines \o <<HeaderLine(RawColumns), RowLine(data)>>)

\* df.to_csv(filename, mode='a', index=False, header=not file_exists)
append_data_to_csv(file, data) ==
    LET file_exists == file.exists
    IN IF file_exists
       THEN File(file.lines \o <<RowLine(data)>>)
       ELSE File(<<HeaderLine(RawColumns), RowLine(data)>>)

\* fetch_and_store, the fetch answering `data`
FetchOk ==
    /\ ingest_pc = "fetch"
    /\ cycles < MaxCycles
    /\ \E data \in Samples :
        /\ csv_data' = append_data_to_csv(csv_data, data)
        /\ fetched' = Append(fetched, data)
    /\ last_cycle' = [outcome |-> "saved", before |-> csv_data]
    /\ cycles' = cycles + 1
    /\ ingest_pc' = "sleep"
    /\ UNCHANGED <<interrupted, notIngestVars>>

\* fetch_and_store, fetch_bitcoin_price raising (requests error, bad JSON):
\* `except Exception` prints and returns
FetchError ==
    /\ ingest_pc = "fetch"
    /\ cycles < MaxCycles
    /\ last_cycle' = [outcome |-> "error", before |-> csv_data]
    /\ cycles' = cycles + 1
    /\ ingest_pc' = "sleep"
    /\ UNCHANGED <<csv_data, fetched, interrupted, notIngestVars>>

\* time.sleep(60) returns
Sleep ==
    /\ ingest_pc = "sleep"
    /\ ingest_pc' = "fetch"
    /\ UNCHANGED <<csv_data, cycles, fetched, last_cycle, interrupted, notIngestVars>>

\* Ctrl-C: KeyboardInterrupt is no Exception, it leaves the while loop
Interrupt ==
    /\ ingest_pc \in {"fetch", "sleep"}
    /\ ingest_pc' = "stopped"
    /\ interrupted' = TRUE
    /\ UNCHANGED <<csv_data, cycles, fetched, last_cycle, notIngestVars>>

(***************************************************************************)
(* pandas, as bitcoin_utils.py and bitcoin_example.py use it.              *)
(***************************************************************************)
BadTs == -1             \* a timestamp cell pd.to_datetime cannot parse

DataRows(file) == [i \in 1..(Len(file.lines) - 1) |-> file.lines[i + 1].row]

\* pd.read_csv raises on a missing file; pd.to_datetime raises on a bad cell
CanLoad(file) ==
    /\ file.exists
    /\ \A i \in 2..Len(file.lines) : file.lines[i].row.timestamp # BadTs

RemoveAt(s, i) == SubSeq(s, 1, i - 1) \o SubSeq(s, i + 1, Len(s))

MinTs(rows) ==
    CHOOSE t \in {rows[i].timestamp : i \in 1..Len(rows)} :
        \A j \in 1..Len(rows) : t <= rows[j].timestamp

\* faulty variant: the sort is skipped
sort_values_skipped(rows) == {rows}

\* df.sort_values(by='timestamp'): kind='quicksort' is the default, which is
\* not a stable sort, so rows of equal timestamp may come out in any order.
RECURSIVE sort_values(_)
sort_values(rows) ==
    IF rows = <<>> THEN {<<>>}
    ELSE LET m == MinTs(rows)
             firsts == {i \in 1..Len(rows) : rows[i].timestamp = m}
         IN UNION {{<<rows[i]>> \o rest : rest \in sort_values(RemoveAt(rows, i))} :
                      i \in firsts}

Column(rows, c) == [i \in 1..Len(rows) |-> rows[i][c]]

\* faulty variant: change relative to the current value instead of the previous one
pct_change_of_current(xs) ==
    [i \in 1..Len(xs) |->
        IF i = 1 THEN NaN
        ELSE RatSub(Rat(xs[i], xs[i]), RatDiv(Rat(xs[i - 1], 1), Rat(xs[i], 1)))]

\* Series.pct_change(): x[i] / x[i-1] - 1, missing in the first row
pct_change(xs) ==
    [i \in 1..Len(xs) |->
        IF i = 1 THEN NaN
        ELSE RatSub(RatDiv(Rat(xs[i], 1), Rat(xs[i - 1], 1)), Rat(1, 1))]

\* .fillna(0) * 100
fillna0_times100(col) ==
    [i \in 1..Len(col) |->
        RatMul(IF IsNaN(col[i]) THEN Rat(0, 1) ELSE col[i], Rat(100, 1))]

Window(xs, i, window) == SubSeq(xs, i - window + 1, i)

\* faulty variant: min_periods=1, a partial window is averaged
rolling_mean_partial(xs, window) ==
    [i \in 1..Len(xs) |->
        LET lo == IF i < window THEN 1 ELSE i - window + 1
        IN Rat(SumSeq(SubSeq(xs, lo, i)), i - lo + 1)]

\* Series.rolling(window).mean(): min_periods defaults to the window
rolling_mean(xs, window) ==
    [i \in 1..Len(xs) |->
        IF i < window THEN NaN
        ELSE Rat(SumSeq(Window(xs, i, window)), window)]

\* Series.rolling(window).std(): sample standard deviation (ddof=1), kept
\* as the variance it is the square root of:
\* sum((x - S/w)^2) / (w - 1) = sum((w*x - S)^2) / (w*w*(w - 1))
rolling_std(xs, window) ==
    [i \in 1..Len(xs) |->
        IF i < window THEN NaN
        ELSE LET w == Window(xs, i, window)
                 S == SumSeq(w)
                 dev == [j \in 1..window |-> (window * w[j] - S) * (window * w[j] - S)]
             IN [sqrt_of |-> Rat(SumSeq(dev), window * window * (window - 1))]]

StdIsZero(v) == v.sqrt_of.n = 0

(***************************************************************************)
(* bitcoin_utils.py: transform_bitcoin_data.                               *)
(***************************************************************************)
MovingAvgWindow == 7
VolatilityWindow == 15
DerivedColumns == RawColumns \o <<"price_change_pct", "moving_avg_price", "volatility_15m">>

Derive(rows) ==
    LET price == Column(rows, "price_usd")
        pct == fillna0_times100(pct_change(price))
        avg == rolling_mean(price, MovingAvgWindow)
        vol == rolling_std(price, VolatilityWindow)
    IN [i \in 1..Len(rows) |->
           RowLine([timestamp |-> rows[i].timestamp,
                    price_usd |-> rows[i].price_usd,
                    market_cap_usd |-> rows[i].market_cap_usd,
                    price_change_pct |-> pct[i],
                    moving_avg_price |-> avg[i],
                    volatility_15m |-> vol[i]])]

\* transform_bitcoin_data(): any exception is printed, nothing is written
Transform ==
    /\ pc = "start"
    /\ pc' = "returned"
    /\ IF CanLoad(csv_data)
       THEN \E sorted \in sort_values(DataRows(csv_data)) :
               transformed_csv' = File(<<HeaderLine(DerivedColumns)>> \o Derive(sorted))
       ELSE UNCHANGED transformed_csv
    /\ UNCHANGED <<ingestVars, full_csv, df, forecast_prophet_csv, forecast_sarima_csv,
                   seasonal_png, resampled, step_status, last_call, pushVars>>

(***************************************************************************)
(* bitcoin_example.py: run_prophet_forecast.                               *)
(***************************************************************************)
Datetime(t) == [kind |-> "datetime", v |-> t]
RangeIndex(i) == [kind |-> "rangeindex", v |-> i]

RECURSIVE SortedSeq(_)
SortedSeq(S) ==
    IF S = {} THEN <<>>
    ELSE LET m == CHOOSE x \in S : \A y \in S : x <= y
         IN <<m>> \o SortedSeq(S \ {m})

\* Prophet.fit: history_dates = sorted unique ds
history_dates(rows) == SortedSeq({rows[i].timestamp : i \in 1..Len(rows)})

\* pd.date_range(start=start, periods=periods, freq=freq)
date_range(start, periods, freq) == [j \in 1..periods |-> start + (j - 1) * freq]

\* faulty variant: the `dates > last_date` filter is dropped
make_future_dataframe_from_last(hist, periods) ==
    LET last_date == hist[Len(hist)]
        dates == date_range(last_date, periods + 1, Minute)
    IN hist \o SubSeq(dates, 1, periods)

\* Prophet.make_future_dataframe(periods, freq='T', include_history=True)
make_future_dataframe(hist, periods) ==
    LET last_date == hist[Len(hist)]
        dates == date_range(last_date, periods + 1, Minute)
        later == SelectSeq(dates, LAMBDA d : d > last_date)
    IN hist \o SubSeq(later, 1, periods)

\* The fitted trend, offset m and growth k per minute from the first date;
\* which one the optimiser returns is not decided here.
ProphetFits == {[k |-> 0, m |-> 100], [k |-> 1, m |-> 101]}

ForecastColumns == <<"ds", "trend", "yhat", "moving_avg_price", "volatility_15m">>

\* model.predict(future), then the rolling metrics on yhat
ProphetForecast(fit, future) ==
    LET yhat == [i \in 1..Len(future) |-> fit.m + fit.k * ((future[i] - future[1]) \div Minute)]
        avg == rolling_mean(yhat, MovingAvgWindow)
        vol == rolling_std(yhat, VolatilityWindow)
    IN [i \in 1..Len(future) |->
           RowLine([ds |-> Datetime(future[i]),
                    trend |-> Rat(yhat[i], 1),
                    yhat |-> Rat(yhat[i], 1),
                    moving_avg_price |-> avg[i],
                    volatility_15m |-> vol[i]])]

\* Prophet.fit raises on fewer than 2 rows and may fail in the optimiser
ProphetOutcomes(d, periods) ==
    {[raised |-> TRUE, forecast |-> <<>>]} \cup
    (IF Len(d) < 2 THEN {}
     ELSE {[raised |-> FALSE,
            forecast |-> ProphetForecast(fit, make_future_dataframe(history_dates(d), periods))] :
              fit \in ProphetFits})

ProphetEffect(periods, o) ==
    /\ forecast_prophet_csv' =
          IF o.raised THEN forecast_prophet_csv
          ELSE File(<<HeaderLine(ForecastColumns)>> \o o.forecast)
    /\ last_call' = [fn |-> "prophet", arg |-> periods, raised |-> o.raised,
                     png_before |-> seasonal_png]
    /\ UNCHANGED <<forecast_sarima_csv, seasonal_png, resampled>>

(***************************************************************************)
(* bitcoin_example.py: run_sarima_forecast.                                *)
(***************************************************************************)
SarimaColumns == <<"ds", "yhat_sarima">>
SarimaLevels == {100, 101}

\* get_forecast(steps).predicted_mean.reset_index(): df['price_usd'] carries
\* the frame's default RangeIndex, so the forecast is indexed by the row
\* positions n .. n+steps-1, and that index becomes the column named ds.
SarimaForecast(d, steps, level) ==
    [j \in 1..steps |->
        RowLine([ds |-> RangeIndex(Len(d) + j - 1), yhat_sarima |-> Rat(level, 1)])]

\* SARIMAX(...).fit raises on an empty series and may fail numerically
SarimaOutcomes(d, steps) ==
    {[raised |-> TRUE, forecast |-> <<>>]} \cup
    (IF Len(d) = 0 THEN {}
     ELSE {[raised |-> FALSE, forecast |-> SarimaForecast(d, steps, level)] :
              level \in SarimaLevels})

SarimaEffect(steps, o) ==
    /\ forecast_sarima_csv' =
          IF o.raised THEN forecast_sarima_csv
          ELSE File(<<HeaderLine(SarimaColumns)>> \o o.forecast)
    /\ last_call' = [fn |-> "sarima", arg |-> steps, raised |-> o.raised,
                     png_before |-> seasonal_png]
    /\ UNCHANGED <<forecast_prophet_csv, seasonal_png, resampled>>

(***************************************************************************)
(* bitcoin_example.py: run_seasonal_decompose.                             *)
(***************************************************************************)
NoFrame == [made |-> FALSE, grid |-> <<>>]
Frame(g) == [made |-> TRUE, grid |-> g]

HasDuplicates(rows) ==
    \E i, j \in 1..Len(rows) : i # j /\ rows[i].timestamp = rows[j].timestamp

MaxTs(rows) ==
    CHOOSE t \in {rows[i].timestamp : i \in 1..Len(rows)} :
        \A j \in 1..Len(rows) : t >= rows[j].timestamp

\* Series.asfreq('T'): reindex on date_range(index.min(), index.max(), freq);
\* a grid instant that is no index label gets NaN
asfreq(rows) ==
    IF rows = <<>> THEN <<>>
    ELSE LET lo == MinTs(rows)
             n == (MaxTs(rows) - lo) \div Minute + 1
             dti == date_range(lo, n, Minute)
         IN [j \in 1..n |->
                [timestamp |-> dti[j],
                 price_usd |->
                    IF \E i \in 1..Len(rows) : rows[i].timestamp = dti[j]
                    THEN Rat(rows[CHOOSE i \in 1..Len(rows) : rows[i].timestamp = dti[j]].price_usd, 1)
                    ELSE NaN]]

\* .fillna(method='ffill'): a missing value takes the last value present
\* before it; one with nothing before it stays missing
ffill(s) ==
    [j \in 1..Len(s) |->
        LET known == {k \in 1..j : ~IsNaN(s[k].price_usd)}
        IN IF known = {} THEN s[j]
           ELSE LET k == CHOOSE k \in known : \A l \in known : l <= k
                IN [s[j] EXCEPT !.price_usd = s[k].price_usd]]

\* faulty variant: one cycle is taken for enough
seasonal_decompose_raises_one_cycle(x, period) ==
    \/ \E j \in 1..Len(x) : IsNaN(x[j].price_usd)
    \/ Len(x) < period

\* statsmodels seasonal_decompose: ValueError on missing values and on
\* fewer than 2 * period observations
seasonal_decompose_raises(x, period) ==
    \/ \E j \in 1..Len(x) : IsNaN(x[j].price_usd)
    \/ Len(x) < 2 * period

Figure(x) == File(<<[panels |-> <<"observed", "trend", "seasonal", "resid">>, points |-> Len(x)]>>)

\* reindex raises on duplicate labels, before anything is decomposed
DecomposeEffect(d, period) ==
    LET reindexed == ~HasDuplicates(d)
        x == IF reindexed THEN ffill(asfreq(d)) ELSE <<>>
        raised == ~reindexed \/ seasonal_decompose_raises(x, period)
    IN /\ resampled' = IF reindexed THEN Frame(x) ELSE NoFrame
       /\ seasonal_png' = IF raised THEN seasonal_png ELSE Figure(x)
       /\ last_call' = [fn |-> "decompose", arg |-> period, raised |-> raised,
                        png_before |-> seasonal_png]
       /\ UNCHANGED <<forecast_prophet_csv, forecast_sarima_csv>>

(***************************************************************************)
(* The three forecasting functions called directly, with any argument.     *)
(***************************************************************************)
CallProphet ==
    /\ pc = "call"
    /\ \E periods \in 0..MaxHorizon :
        \E o \in ProphetOutcomes(df, periods) : ProphetEffect(periods, o)
    /\ pc' = "returned"
    /\ UNCHANGED <<ingestVars, transformed_csv, full_csv, df, step_status, pushVars>>

CallSarima ==
    /\ pc = "call"
    /\ \E steps \in 0..MaxHorizon :
        \E o \in SarimaOutcomes(df, steps) : SarimaEffect(steps, o)
    /\ pc' = "returned"
    /\ UNCHANGED <<ingestVars, transformed_csv, full_csv, df, step_status, pushVars>>

CallDecompose ==
    /\ pc = "call"
    /\ \E period \in 1..MaxPeriod : DecomposeEffect(df, period)
    /\ pc' = "returned"
    /\ UNCHANGED <<ingestVars, transformed_csv, full_csv, df, step_status, pushVars>>

(***************************************************************************)
(* bitcoin_example.py: main.  Nothing catches an exception: the first      *)
(* step that raises ends the process.                                      *)
(***************************************************************************)
DefaultPeriods == 60
DefaultSteps == 60
DefaultPeriod == 60

Status(raised) == IF raised THEN "raised" ELSE "ok"

\* df = pd.read_csv(...); df['timestamp'] = pd.to_datetime(df['timestamp'])
Load ==
    /\ pc = "load"
    /\ IF CanLoad(full_csv)
       THEN df' = DataRows(full_csv) /\ pc' = "prophet"
       ELSE pc' = "aborted" /\ UNCHANGED df
    /\ UNCHANGED <<ingestVars, transformed_csv, full_csv, forecast_prophet_csv,
                   forecast_sarima_csv, seasonal_png, resampled, step_status,
                   last_call, pushVars>>

MainProphet ==
    /\ pc = "prophet"
    /\ \E o \in ProphetOutcomes(df, DefaultPeriods) :
        /\ ProphetEffect(DefaultPeriods, o)
        /\ step_status' = [step_status EXCEPT !.prophet = Status(o.raised)]
        /\ pc' = IF o.raised THEN "aborted" ELSE "sarima"
    /\ UNCHANGED <<ingestVars, transformed_csv, full_csv, df, pushVars>>

MainSarima ==
    /\ pc = "sarima"
    /\ \E o \in SarimaOutcomes(df, DefaultSteps) :
        /\ SarimaEffect(DefaultSteps, o)
        /\ step_status' = [step_status EXCEPT !.sarima = Status(o.raised)]
        /\ pc' = IF o.raised THEN "aborted" ELSE "decompose"
    /\ UNCHANGED <<ingestVars, transformed_csv, full_csv, df, pushVars>>

MainDecompose ==
    /\ pc = "decompose"
    /\ DecomposeEffect(df, DefaultPeriod)
    /\ step_status' = [step_status EXCEPT !.decompose = Status(last_call'.raised)]
    /\ pc' = IF last_call'.raised THEN "aborted" ELSE "done"
    /\ UNCHANGED <<ingestVars, transformed_csv, full_csv, df, pushVars>>

(***************************************************************************)
(* push_to_powerbi.py.                                                     *)
(***************************************************************************)
Text(s) == [text |-> s]
IsNumber(cell) == "n" \in DOMAIN cell \/ "sqrt_of" \in DOMAIN cell

\* pd.to_numeric(col, errors="coerce")
to_numeric(cell) == IF IsNumber(cell) THEN cell ELSE NaN

\* load_forecast
load_forecast(file) ==
    LET rows == DataRows(file)
    IN [i \in 1..Len(rows) |->
           [rows[i] EXCEPT !.yhat = to_numeric(@),
                           !.moving_avg_price = to_numeric(@),
                           !.volatility_15m = to_numeric(@)]]

\* faulty variant: the loop starts at the second row
build_rows_skips_first(frame) ==
    [i \in 1..(Len(frame) - 1) |->
        [timestamp |-> frame[i + 1].ds,
         price_usd |-> frame[i + 1].yhat,
         moving_avg_price |-> frame[i + 1].moving_avg_price,
         volatility_15m |-> frame[i + 1].volatility_15m]]

\* build_rows
build_rows(frame) ==
    [i \in 1..Len(frame) |->
        [timestamp |-> frame[i].ds,
         price_usd |-> frame[i].yhat,
         moving_avg_price |-> frame[i].moving_avg_price,
         volatility_15m |-> frame[i].volatility_15m]]

\* the script: existence check, load_forecast, build_rows, push_to_powerbi;
\* resp.raise_for_status() may raise after the request was made
PushScript ==
    /\ push_pc = "start"
    /\ IF ~forecast_prophet_csv.exists
       THEN push_pc' = "failed" /\ UNCHANGED <<posts, printed>>
       ELSE LET payload == [rows |-> build_rows(load_forecast(forecast_prophet_csv))]
            IN IF DRY_RUN
               THEN /\ printed' = Append(printed, payload)
                    /\ push_pc' = "done"
                    /\ UNCHANGED posts
               ELSE /\ posts' = Append(posts, payload)
                    /\ \E status_ok \in BOOLEAN :
                          push_pc' = IF status_ok THEN "done" ELSE "failed"
                    /\ UNCHANGED printed
    /\ UNCHANGED <<ingestVars, transformed_csv, mainVars, forecast_prophet_csv, DRY_RUN>>

(***************************************************************************)
(* Initial states and specifications, one per program.                     *)
(***************************************************************************)
NoCall == [fn |-> "none", arg |-> 0, raised |-> FALSE, png_before |-> NoFile]
NoCycle == [outcome |-> "none", before |-> NoFile]
NotRun == [prophet |-> "notrun", sarima |-> "notrun", decompose |-> "notrun"]
OldFigure == File(<<[panels |-> <<"observed", "trend", "seasonal", "resid">>, points |-> 0]>>)

IngestIdle ==
    /\ ingest_pc = "off" /\ cycles = 0 /\ fetched = <<>>
    /\ last_cycle = NoCycle /\ interrupted = FALSE

MainIdle ==
    /\ full_csv = NoFile /\ df = <<>> /\ forecast_sarima_csv = NoFile
    /\ seasonal_png = NoFile /\ resampled = NoFrame
    /\ step_status = NotRun /\ last_call = NoCall

PushIdle ==
    /\ DRY_RUN = FALSE /\ posts = <<>> /\ printed = <<>> /\ push_pc = "off"

\* ---- ingestion ----
InitIngest ==
    /\ csv_data = NoFile
    /\ ingest_pc = "fetch" /\ cycles = 0 /\ fetched = <<>>
    /\ last_cycle = NoCycle /\ interrupted = FALSE
    /\ transformed_csv = NoFile /\ pc = "off" /\ forecast_prophet_csv = NoFile
    /\ MainIdle /\ PushIdle

NextIngest == FetchOk \/ FetchError \/ Sleep \/ Interrupt

SpecIngest == InitIngest /\ [][NextIngest]_vars

\* ---- transform ----
RawRow(t, p) == [timestamp |-> t, price_usd |-> p, market_cap_usd |-> p * 2]

\* one sample per minute: a quiet run of one price, then any prices
SteadyRows(quiet, p, tail) ==
    [i \in 1..(quiet + Len(tail)) |->
        RawRow((i - 1) * Minute, IF i <= quiet THEN p ELSE tail[i - quiet])]

SwapLast(rows) ==
    IF Len(rows) < 2 THEN rows
    ELSE [rows EXCEPT ![Len(rows)] = rows[Len(rows) - 1], ![Len(rows) - 1] = rows[Len(rows)]]

ShortRows == {RawRow(t, p) : t \in {0, Minute, BadTs}, p \in {100, 101}}

RawFile(rows) == File(<<HeaderLine(RawColumns)>> \o [i \in 1..Len(rows) |-> RowLine(rows[i])])

InitTransform ==
    /\ \/ csv_data = NoFile
       \/ \E quiet \in 0..MaxQuiet, p \in Prices, tail \in SeqsUpTo(Prices, MaxTail),
             late \in BOOLEAN :
             csv_data = RawFile(IF late THEN SwapLast(SteadyRows(quiet, p, tail))
                                ELSE SteadyRows(quiet, p, tail))
       \/ \E rows \in SeqsUpTo(ShortRows, MaxShort) : csv_data = RawFile(rows)
    /\ IngestIdle
    /\ transformed_csv = NoFile /\ pc = "start" /\ forecast_prophet_csv = NoFile
    /\ MainIdle /\ PushIdle

NextTransform == Transform

SpecTransform == InitTransform /\ [][NextTransform]_vars

\* ---- forecasters called directly ----
SeriesRow(t, p) == [timestamp |-> t, price_usd |-> p]
Times == {0, Minute, Minute + Minute \div 2, 3 * Minute}
SeriesRows == {SeriesRow(t, p) : t \in Times, p \in {100, 101}}

InitForecast ==
    /\ df \in SeqsUpTo(SeriesRows, MaxRows)
    /\ seasonal_png \in {NoFile, OldFigure}
    /\ pc = "call"
    /\ csv_data = NoFile /\ IngestIdle /\ transformed_csv = NoFile
    /\ full_csv = NoFile /\ forecast_prophet_csv = NoFile /\ forecast_sarima_csv = NoFile
    /\ resampled = NoFrame /\ step_status = NotRun /\ last_call = NoCall
    /\ PushIdle

NextForecast == CallProphet \/ CallSarima \/ CallDecompose

SpecForecast == InitForecast /\ [][NextForecast]_vars

\* ---- orchestrator ----
Far == 119 * Minute
FullRows == {SeriesRow(t, p) : t \in Times \cup {Far}, p \in {100, 101}}
FullFile(rows) == File(<<HeaderLine(DerivedColumns)>> \o [i \in 1..Len(rows) |-> RowLine(rows[i])])

InitMain ==
    /\ \/ full_csv = NoFile
       \/ \E rows \in SeqsUpTo(FullRows, MaxRows) : full_csv = FullFile(rows)
    /\ pc = "load" /\ df = <<>>
    /\ csv_data = NoFile /\ IngestIdle /\ transformed_csv = NoFile
    /\ forecast_prophet_csv = NoFile /\ forecast_sarima_csv = NoFile
    /\ seasonal_png = NoFile /\ resampled = NoFrame
    /\ step_status = NotRun /\ last_call = NoCall
    /\ PushIdle

NextMain == Load \/ MainProphet \/ MainSarima \/ MainDecompose

SpecMain == InitMain /\ [][NextMain]_vars

\* ---- push ----
ForecastCells ==
    {[ds |-> Datetime(t), trend |-> Rat(100, 1), yhat |-> y,
      moving_avg_price |-> a, volatility_15m |-> v] :
        t \in {0, Minute}, y \in {Rat(100, 1), Text("n/a")},
        a \in {NaN, Rat(100, 1)}, v \in {NaN, [sqrt_of |-> Rat(0, 1)]}}

ForecastFile(rows) == File(<<HeaderLine(ForecastColumns)>> \o [i \in 1..Len(rows) |-> RowLine(rows[i])])

InitPush ==
    /\ \/ forecast_prophet_csv = NoFile
       \/ \E rows \in SeqsUpTo(ForecastCells, MaxPushRows) :
             forecast_prophet_csv = ForecastFile(rows)
    /\ DRY_RUN \in BOOLEAN
    /\ posts = <<>> /\ printed = <<>> /\ push_pc = "start"
    /\ csv_data = NoFile /\ IngestIdle /\ transformed_csv = NoFile /\ pc = "off"
    /\ MainIdle

NextPush == PushScript

SpecPush == InitPush /\ [][NextPush]_vars

(***************************************************************************)
(* Properties.                                                             *)
(***************************************************************************)
Terminated == pc \in {"done", "aborted"}
Steps == {"prophet", "sarima", "decompose"}

\* C1: in main(), a failure of any one forecasting step leaves the other two
\* steps running and writing their own artifacts; only the failed step's
\* artifact is skipped.
C1_StepsIsolated ==
    Terminated /\ (\E s \in Steps : step_status[s] = "raised") =>
        \A t \in Steps :
            /\ step_status[t] # "notrun"
            /\ step_status[t] = "ok" =>
                  CASE t = "prophet" -> forecast_prophet_csv.exists
                    [] t = "sarima" -> forecast_sarima_csv.exists
                    [] t = "decompose" -> seasonal_png.exists

\* C2: starting with no file, the raw file is one header row followed by one
\* data row per successful fetch, in fetch order; a failed fetch leaves the
\* file as it was and the loop goes on; only an interrupt stops the loop.
C2_HeaderThenOneRowPerFetch ==
    /\ csv_data.exists <=> fetched # <<>>
    /\ csv_data.exists =>
          csv_data.lines =
              <<HeaderLine(RawColumns)>> \o [i \in 1..Len(fetched) |-> RowLine(fetched[i])]
    /\ last_cycle.outcome = "error" => csv_data = last_cycle.before
    /\ ingest_pc = "stopped" => interrupted
    /\ ~interrupted /\ cycles < MaxCycles => ingest_pc \in {"fetch", "sleep"}

C2_SavedAfterAFailedCycle ==
    /\ last_cycle.outcome = "saved"
    /\ Len(fetched) >= 2
    /\ cycles > Len(fetched)

\* C3: the resampled series is a one-per-minute grid from the first to the
\* last observed timestamp, and every grid point carries the price of the
\* most recent sample at or before that instant, for any input series.
C3_GridHoldsLastObserved ==
    resampled.made /\ df # <<>> =>
        LET g == resampled.grid
            first == MinTs(df)
            last == MaxTs(df)
        IN /\ Len(g) >= 1
           /\ g[1].timestamp = first
           /\ g[Len(g)].timestamp <= last /\ last < g[Len(g)].timestamp + Minute
           /\ \A j \in 1..Len(g) : g[j].timestamp = first + (j - 1) * Minute
           /\ \A j \in 1..Len(g) :
                 \E i \in 1..Len(df) :
                    /\ df[i].timestamp <= g[j].timestamp
                    /\ \A k \in 1..Len(df) :
                          df[k].timestamp <= g[j].timestamp => df[k].timestamp <= df[i].timestamp
                    /\ g[j].price_usd = Rat(df[i].price_usd, 1)

\* C4: a successful run_prophet_forecast with periods = p writes the rows of
\* the historical dates followed by exactly p rows beyond the last historical
\* timestamp, one minute apart.
C4_ProphetHorizon ==
    last_call.fn = "prophet" /\ ~last_call.raised =>
        LET p == last_call.arg
            rows == DataRows(forecast_prophet_csv)
            dates == {df[i].timestamp : i \in 1..Len(df)}
            h == Cardinality(dates)
            last == MaxTs(df)
        IN /\ Len(rows) = h + p
           /\ {rows[i].ds : i \in 1..h} = {Datetime(t) : t \in dates}
           /\ \A i \in 1..(Len(rows) - 1) : rows[i].ds.v < rows[i + 1].ds.v
           /\ \A j \in 1..p : rows[h + j].ds = Datetime(last + j * Minute)
           /\ Cardinality({i \in 1..Len(rows) : rows[i].ds.v > last}) = p

C4_ProphetForecastWritten ==
    /\ last_call.fn = "prophet" /\ ~last_call.raised
    /\ last_call.arg >= 2
    /\ Len(df) >= 3
    /\ Cardinality({df[i].timestamp : i \in 1..Len(df)}) = 2
    /\ forecast_prophet_csv.exists

\* C5: a successful run_sarima_forecast with steps = s writes exactly s rows
\* whose ds are strictly increasing and all strictly after the last
\* historical timestamp.
C5_SarimaAfterHistory ==
    last_call.fn = "sarima" /\ ~last_call.raised =>
        LET rows == DataRows(forecast_sarima_csv)
        IN /\ Len(rows) = last_call.arg
           /\ \A i \in 1..(Len(rows) - 1) : rows[i].ds.v < rows[i + 1].ds.v
           /\ \A i \in 1..Len(rows) :
                 rows[i].ds.kind = "datetime" /\ rows[i].ds.v > MaxTs(df)

RawPart(r) == RawRow(r.timestamp, r.price_usd)
Count(rows, r) == Cardinality({i \in 1..Len(rows) : RawPart(rows[i]) = r})

\* C6: for a non-empty input the derived table has as many rows as the input,
\* in ascending timestamp order, price_change_pct is 0 in the first row and
\* (price[i] - price[i-1]) / price[i-1] * 100 in every later row.
C6_PriceChangePct ==
    pc = "returned" /\ CanLoad(csv_data) /\ Len(csv_data.lines) > 1 =>
        LET inp == DataRows(csv_data)
            out == DataRows(transformed_csv)
        IN /\ transformed_csv.exists
           /\ Len(out) = Len(inp)
           /\ \A i \in 1..Len(inp) : Count(out, inp[i]) = Count(inp, inp[i])
           /\ \A i \in 1..(Len(out) - 1) : out[i].timestamp <= out[i + 1].timestamp
           /\ out[1].price_change_pct = Rat(0, 1)
           /\ \A i \in 2..Len(out) :
                 RatEq(out[i].price_change_pct,
                       Rat((out[i].price_usd - out[i - 1].price_usd) * 100,
                           out[i - 1].price_usd))

C6_PriceMovedAfterSort ==
    /\ pc = "returned" /\ transformed_csv.exists
    /\ Len(csv_data.lines) > 3
    /\ DataRows(csv_data)[Len(csv_data.lines) - 1].timestamp
          < DataRows(csv_data)[Len(csv_data.lines) - 2].timestamp
    /\ LET out == DataRows(transformed_csv)
       IN out[Len(out)].price_change_pct.n < 0

AllEqual(w) == \A j \in 1..Len(w) : w[j] = w[1]

\* C7: moving_avg_price is missing in the first 6 rows and is afterwards the
\* mean of the current and the 6 previous prices; volatility_15m is missing
\* in the first 14 rows and is 0 whenever the current and the 14 previous
\* prices are identical; short inputs still produce a table.
C7_TrailingWindows ==
    pc = "returned" /\ CanLoad(csv_data) =>
        LET out == DataRows(transformed_csv)
            price == [i \in 1..Len(out) |-> out[i].price_usd]
        IN /\ transformed_csv.exists
           /\ \A i \in 1..Len(out) :
                 /\ i <= 6 => IsNaN(out[i].moving_avg_price)
                 /\ i >= 7 =>
                       /\ ~IsNaN(out[i].moving_avg_price)
                       /\ RatEq(out[i].moving_avg_price,
                                Rat(price[i - 6] + price[i - 5] + price[i - 4] + price[i - 3]
                                        + price[i - 2] + price[i - 1] + price[i], 7))
                 /\ i <= 14 => IsNaN(out[i].volatility_15m)
                 /\ i >= 15 =>
                       /\ ~IsNaN(out[i].volatility_15m)
                       /\ AllEqual(SubSeq(price, i - 14, i)) => StdIsZero(out[i].volatility_15m)

C7_FlatThenMovingWindow ==
    /\ pc = "returned" /\ transformed_csv.exists
    /\ LET out == DataRows(transformed_csv)
       IN /\ Len(out) >= 16
          /\ StdIsZero(out[15].volatility_15m)
          /\ ~StdIsZero(out[16].volatility_15m)
          /\ out[16].moving_avg_price.n # 7 * out[16].price_usd * out[16].moving_avg_price.d

\* C8: run_seasonal_decompose on a resampled grid of fewer than 2 * period
\* points raises, and seasonal_decompose.png is neither created nor
\* overwritten.
C8_ShortGridLeavesNoFigure ==
    /\ last_call.fn = "decompose"
    /\ resampled.made
    /\ Len(resampled.grid) < 2 * last_call.arg
    => /\ last_call.raised
       /\ seasonal_png = last_call.png_before

C8_ShortGridKeptOldFigure ==
    /\ last_call.fn = "decompose"
    /\ resampled.made
    /\ Len(resampled.grid) >= last_call.arg
    /\ Len(resampled.grid) < 2 * last_call.arg
    /\ last_call.raised
    /\ seasonal_png = OldFigure

PushKeys == {"timestamp", "price_usd", "moving_avg_price", "volatility_15m"}

ExpectedPayload ==
    LET table == DataRows(forecast_prophet_csv)
        number(c) == IF c = NaN \/ "text" \in DOMAIN c THEN NaN ELSE c
    IN [rows |-> [i \in 1..Len(table) |->
                     [timestamp |-> table[i].ds,
                      price_usd |-> number(table[i].yhat),
                      moving_avg_price |-> number(table[i].moving_avg_price),
                      volatility_15m |-> number(table[i].volatility_15m)]]]

C10_LoadedSeriesAscending ==
    pc \in {"prophet", "sarima", "decompose", "done"} =>
        \A i \in 1..(Len(df) - 1) : df[i].timestamp <= df[i + 1].timestamp

====
